---- MODULE Spec2Model ----
(***************************************************************************)
(* Job-scheduler run-log analyser (browser application).                   *)
(*                                                                         *)
(* The model covers the data path of the application: the spreadsheet      *)
(* reader with its header validation, the row normaliser with the date     *)
(* parser, the accumulation of records in the DataProcessor, the per-job   *)
(* statistics, and the asynchronous processFiles calls started from the    *)
(* user interface.                                                         *)
(*                                                                         *)
(* Text is a sequence of one-character strings, so that trim, includes,    *)
(* split and the regular-expression replacements act as they do in the     *)
(* code.  A Date is its time value in whole seconds since the epoch (the   *)
(* modelled texts carry no fraction of a second); NaN is the time value of *)
(* an invalid Date.                                                        *)
(***************************************************************************)
EXTENDS Integers, Sequences, FiniteSets, TLC

(***************************************************************************)
(* Bounds of the model.                                                    *)
(***************************************************************************)
MaxRows == 3

MaxFiles == 2

\* the records of an ExportManager are at most MaxRecords
MaxRecords == 3

\* the loading ids Utils.generateUniqueId hands out
MaxIds == 3

(***************************************************************************)
(* JavaScript values.  A cell value, a parsed date and a missing value are *)
(* records tagged with their type, so that they can be told apart.         *)
(***************************************************************************)
Undefined == [type |-> "undefined"]

Null == [type |-> "null"]

Str(s) == [type |-> "string", s |-> s]

\* a valid Date with time value t (seconds since the epoch)
DateOf(t) == [type |-> "date", valid |-> TRUE, time |-> t]

\* new Date(NaN)
InvalidDate == [type |-> "date", valid |-> FALSE, time |-> 0]

IsString(v) == v.type = "string"

\* value instanceof Date && !isNaN(value)
IsValidDate(v) == v.type = "date" /\ v.valid

\* !value for the values of the model: undefined, null and "" are falsy
Falsy(v) == v.type \in {"undefined", "null"} \/ (IsString(v) /\ v.s = <<>>)

(***************************************************************************)
(* Text helpers: String.prototype.trim / includes / split and friends.     *)
(***************************************************************************)
Space == " "

Digits == <<"0", "1", "2", "3", "4", "5", "6", "7", "8", "9">>

IsDigit(c) == \E i \in 1..10 : Digits[i] = c

DigitValue(c) == (CHOOSE i \in 1..10 : Digits[i] = c) - 1

RECURSIVE TrimStart(_)
TrimStart(s) ==
    IF s # <<>> /\ Head(s) = Space THEN TrimStart(Tail(s)) ELSE s

RECURSIVE TrimEnd(_)
TrimEnd(s) ==
    IF s # <<>> /\ s[Len(s)] = Space THEN TrimEnd(SubSeq(s, 1, Len(s) - 1)) ELSE s

Trim(s) == TrimEnd(TrimStart(s))

\* s.includes(t): t occurs in s as a contiguous run of characters
Includes(s, t) ==
    \E i \in 1..(Len(s) - Len(t) + 1) : SubSeq(s, i, i + Len(t) - 1) = t

\* s.replace(/,/g, "")
RemoveCommas(s) == SelectSeq(s, LAMBDA c : c # ",")

\* s.replace(/\s+/g, " ")
RECURSIVE CollapseSpaces(_)
CollapseSpaces(s) ==
    IF Len(s) < 2 THEN s
    ELSE IF s[1] = Space /\ s[2] = Space THEN CollapseSpaces(Tail(s))
    ELSE <<s[1]>> \o CollapseSpaces(Tail(s))

\* position of the first occurrence of character c in s, 0 when absent
IndexOf(s, c) ==
    IF \E i \in 1..Len(s) : s[i] = c
    THEN CHOOSE i \in 1..Len(s) : s[i] = c /\ \A j \in 1..(i - 1) : s[j] # c
    ELSE 0

\* s.split(c): the pieces of s between the occurrences of c
RECURSIVE Split(_, _)
Split(s, c) ==
    LET i == IndexOf(s, c)
    IN  IF i = 0 THEN <<s>>
        ELSE <<SubSeq(s, 1, i - 1)>> \o Split(SubSeq(s, i + 1, Len(s)), c)

UndefinedText == <<"u", "n", "d", "e", "f", "i", "n", "e", "d">>

\* `${parts[k]}` inside a template literal: an element beyond the length of a
\* destructured array is undefined and prints as the text "undefined"
Piece(parts, k) == IF k <= Len(parts) THEN parts[k] ELSE UndefinedText

RECURSIVE NumberValue(_)
NumberValue(s) ==
    IF s = <<>> THEN 0
    ELSE 10 * NumberValue(SubSeq(s, 1, Len(s) - 1)) + DigitValue(s[Len(s)])

AllDigits(s) == \A i \in 1..Len(s) : IsDigit(s[i])

(***************************************************************************)
(* The Date constructor applied to text, for the shapes of text the model  *)
(* uses: ISO dates (read as UTC when they carry no time, as local time     *)
(* otherwise), the legacy "yyyy-mm-dd hh:mm[:ss]" and the legacy           *)
(* "m/d/yyyy [hh:mm[:ss]]", which is read month first.  Text of any other  *)
(* shape gives an invalid Date.                                            *)
(***************************************************************************)
\* Date.prototype.getTimezoneOffset of the browser, in seconds (UTC-3)
LocalOffsetSeconds == 3 * 3600

IsLeap(y) == (y % 4 = 0 /\ y % 100 # 0) \/ y % 400 = 0

LeapsBefore(y) == ((y - 1) \div 4) - ((y - 1) \div 100) + ((y - 1) \div 400)

DayFromYear(y) == 365 * (y - 1970) + LeapsBefore(y) - LeapsBefore(1970)

CumulativeDays == <<0, 31, 59, 90, 120, 151, 181, 212, 243, 273, 304, 334>>

\* MakeDay of the language definition, for a month in 1..12
MakeDay(y, m, d) ==
    DayFromYear(y) + CumulativeDays[m] + (IF m > 2 /\ IsLeap(y) THEN 1 ELSE 0) + d - 1

IsNumber(s, n) == Len(s) = n /\ AllDigits(s)

\* hh:mm or hh:mm:ss, split at the colons
IsTimeParts(p) ==
    /\ Len(p) \in {2, 3}
    /\ \A i \in 1..Len(p) : IsNumber(p[i], 2)
    /\ NumberValue(p[1]) <= 23
    /\ \A i \in 2..Len(p) : NumberValue(p[i]) <= 59

IsTime(s) == IsTimeParts(Split(s, ":"))

TimePartsSeconds(p) ==
    3600 * NumberValue(p[1]) + 60 * NumberValue(p[2])
    + (IF Len(p) = 3 THEN NumberValue(p[3]) ELSE 0)

TimeSeconds(s) == TimePartsSeconds(Split(s, ":"))

\* yyyy-mm-dd, split at the hyphens
IsYmdParts(p) ==
    /\ Len(p) = 3
    /\ IsNumber(p[1], 4) /\ IsNumber(p[2], 2) /\ IsNumber(p[3], 2)
    /\ NumberValue(p[2]) \in 1..12
    /\ NumberValue(p[3]) \in 1..31

IsYmd(s) == IsYmdParts(Split(s, "-"))

YmdPartsDay(p) == MakeDay(NumberValue(p[1]), NumberValue(p[2]), NumberValue(p[3]))

YmdDay(s) == YmdPartsDay(Split(s, "-"))

\* m/d/yyyy, the month first, split at the slashes
IsMdyParts(p) ==
    /\ Len(p) = 3
    /\ Len(p[1]) \in {1, 2} /\ AllDigits(p[1])
    /\ Len(p[2]) \in {1, 2} /\ AllDigits(p[2])
    /\ IsNumber(p[3], 4)
    /\ NumberValue(p[1]) \in 1..12
    /\ NumberValue(p[2]) \in 1..31

IsMdy(s) == IsMdyParts(Split(s, "/"))

MdyPartsDay(p) == MakeDay(NumberValue(p[3]), NumberValue(p[1]), NumberValue(p[2]))

MdyDay(s) == MdyPartsDay(Split(s, "/"))

\* the Date of a date part d and a time part t; hasTime: the text has a
\* separator between them, isoSep: that separator is a T
MakeDate(d, t, hasTime, isoSep) ==
    IF ~hasTime /\ IsYmd(d)
        THEN DateOf(86400 * YmdDay(d))
    ELSE IF hasTime /\ IsYmd(d) /\ IsTime(t)
        THEN DateOf(86400 * YmdDay(d) + TimeSeconds(t) + LocalOffsetSeconds)
    ELSE IF ~hasTime /\ IsMdy(d)
        THEN DateOf(86400 * MdyDay(d) + LocalOffsetSeconds)
    ELSE IF hasTime /\ ~isoSep /\ IsMdy(d) /\ IsTime(t)
        THEN DateOf(86400 * MdyDay(d) + TimeSeconds(t) + LocalOffsetSeconds)
    ELSE InvalidDate

\* the text cut at position i (the whole text is the date part when i = 0)
CutDate(s, i, isoSep) ==
    MakeDate(IF i > 0 THEN SubSeq(s, 1, i - 1) ELSE s,
             IF i > 0 THEN SubSeq(s, i + 1, Len(s)) ELSE <<>>,
             i > 0, isoSep)

\* new Date(text): the date and the time are separated by the first T, or
\* else by the first space
NewDate(s) ==
    IF IndexOf(s, "T") > 0 THEN CutDate(s, IndexOf(s, "T"), TRUE)
    ELSE CutDate(s, IndexOf(s, Space), FALSE)

\* String(value) for the values of the model
ToText(v) ==
    IF IsString(v) THEN v.s
    ELSE IF v.type = "date" THEN <<"I", "n", "v", "a", "l", "i", "d", " ", "D", "a", "t", "e">>
    ELSE UndefinedText

\* String(value).trim().replace(/,/g, "").replace(/\s+/g, " ")
Normalize(v) == CollapseSpaces(RemoveCommas(Trim(ToText(v))))

\* first format: new Date(strValue)
FormatIso(strValue) == NewDate(strValue)

\* the pieces of the date part reassembled with the first one as the month
ReassembleMonthFirst(p) == Piece(p, 3) \o <<"-">> \o Piece(p, 1) \o <<"-">> \o Piece(p, 2)

\* `${year}-${month}-${day}` of the pieces of the date part
Reassemble(p) == Piece(p, 3) \o <<"-">> \o Piece(p, 2) \o <<"-">> \o Piece(p, 1)

FormatDmyParts(parts) ==
    IF parts[1] = <<>> THEN Null
    ELSE IF Len(parts) >= 2 /\ parts[2] # <<>>
        THEN NewDate(Reassemble(Split(parts[1], "/")) \o <<Space>> \o parts[2])
    ELSE NewDate(Reassemble(Split(parts[1], "/")))

\* second format: dd/mm/yyyy hh:mm:ss, split and reassembled as yyyy-mm-dd
FormatDmy(strValue) == FormatDmyParts(Split(strValue, Space))

\* /(\d{2})\/(\d{2})\/(\d{4})/ matches at position i
MdyMatch(s, i) ==
    /\ i + 9 <= Len(s)
    /\ IsDigit(s[i]) /\ IsDigit(s[i + 1]) /\ s[i + 2] = "/"
    /\ IsDigit(s[i + 3]) /\ IsDigit(s[i + 4]) /\ s[i + 5] = "/"
    /\ \A k \in 6..9 : IsDigit(s[i + k])

ReplaceAt(s, i) ==
    SubSeq(s, 1, i - 1)
    \o SubSeq(s, i + 6, i + 9) \o <<"-">>
    \o SubSeq(s, i, i + 1) \o <<"-">>
    \o SubSeq(s, i + 3, i + 4)
    \o SubSeq(s, i + 10, Len(s))

\* strValue.replace(/(\d{2})\/(\d{2})\/(\d{4})/, "$3-$1-$2"): the first match
ReplaceMdy(s) ==
    IF \E i \in 1..Len(s) : MdyMatch(s, i)
    THEN ReplaceAt(s, CHOOSE k \in 1..Len(s) :
                          MdyMatch(s, k) /\ \A j \in 1..(k - 1) : ~MdyMatch(s, j))
    ELSE s

\* third format: mm/dd/yyyy hh:mm:ss
FormatMdy(strValue) == NewDate(ReplaceMdy(strValue))

\* the formats tried from the second one on, the first one last
FirstValidFromSecond(results) ==
    IF IsValidDate(results[2]) THEN results[2]
    ELSE IF IsValidDate(results[3]) THEN results[3]
    ELSE IF IsValidDate(results[1]) THEN results[1]
    ELSE Null

\* for (const format of formats): the first result that is a valid Date
FirstValid(results) ==
    IF \E i \in 1..Len(results) : IsValidDate(results[i])
    THEN results[CHOOSE i \in 1..Len(results) :
                     IsValidDate(results[i]) /\ \A j \in 1..(i - 1) : ~IsValidDate(results[j])]
    ELSE Null

TryFormats(strValue) ==
    FirstValid(<<FormatIso(strValue), FormatDmy(strValue), FormatMdy(strValue)>>)

\* DataProcessor.parseDateTime: a valid Date, or Null
parseDateTime(value) ==
    IF Falsy(value) THEN Null
    ELSE IF IsValidDate(value) THEN value
    ELSE TryFormats(Normalize(value))

(***************************************************************************)
(* CONFIG.EXCEL: the header row, the first data row as handed to the       *)
(* spreadsheet library, the column letters and the header labels.          *)
(***************************************************************************)
HEADER_ROW == 9

DATA_START_ROW == 10

ColumnKeys == <<"JOB_NAME", "AGENT_NAME", "START_DATETIME", "END_DATETIME">>

COLUMNS ==
    [JOB_NAME |-> "A", AGENT_NAME |-> "E", START_DATETIME |-> "O", END_DATETIME |-> "Q"]

HEADERS ==
    [JOB_NAME       |-> <<"J", "o", "b", " ", "N", "a", "m", "e">>,
     AGENT_NAME     |-> <<"A", "g", "e", "n", "t", " ", "N", "a", "m", "e">>,
     START_DATETIME |-> <<"S", "t", "a", "r", "t", " ", "D", "a", "t", "e", ",", " ",
                          "T", "i", "m", "e">>,
     END_DATETIME   |-> <<"E", "n", "d", " ", "D", "a", "t", "e", ",", " ", "T", "i", "m", "e">>]

(***************************************************************************)
(* The files the user can select.  A file is described by its name,        *)
(* whether it can be read, what its header row holds and which rows follow *)
(* the header row; FirstSheet gives its sheet.  Cell texts are those the   *)
(* spreadsheet library hands over with raw: false (dates formatted         *)
(* dd/mm/yyyy).                                                            *)
(***************************************************************************)
Dmy1030 == Str(<<"1", "5", "/", "0", "3", "/", "2", "0", "2", "4", " ", "1", "0", ":", "3", "0", ":", "0", "0">>)

Dmy1050 == Str(<<"1", "5", "/", "0", "3", "/", "2", "0", "2", "4", " ", "1", "0", ":", "5", "0", ":", "0", "0">>)

Dmy1100 == Str(<<"1", "5", "/", "0", "3", "/", "2", "0", "2", "4", ",", " ", "1", "1", ":", "0", "0", ":", "0", "0">>)

Iso1030 == Str(<<"2", "0", "2", "4", "-", "0", "3", "-", "1", "5", "T", "1", "0", ":", "3", "0", ":", "0", "0">>)

NotADate == Str(<<"n", "o", "t", "-", "a", "-", "d", "a", "t", "e">>)

Row(job, agent, start, end) == [A |-> job, E |-> agent, O |-> start, Q |-> end]

BlankRow == Row(Undefined, Undefined, Undefined, Undefined)

RowKinds == {"valid", "noJob", "noAgent", "badEnd", "noStart", "negative"}

RowOf(kind) ==
    CASE kind = "blank" -> BlankRow
      \* a run of 20 minutes of job A on agent x
      [] kind = "valid" -> Row(Str(<<"A">>), Str(<<"x">>), Dmy1030, Dmy1050)
      \* no job name, an agent name to trim, an ISO start: a run of 0 minutes
      [] kind = "noJob" -> Row(Undefined, Str(<<" ", "y", " ">>), Iso1030, Dmy1030)
      \* no agent name, a job name to trim: a run of 30 minutes of job B
      [] kind = "noAgent" -> Row(Str(<<"B", " ">>), Undefined, Dmy1030, Dmy1100)
      \* a valid start and an end that does not parse
      [] kind = "badEnd" -> Row(Str(<<"A">>), Str(<<"x">>), Dmy1030, NotADate)
      \* no start
      [] kind = "noStart" -> Row(Str(<<"A">>), Str(<<"x">>), Str(<<>>), Dmy1050)
      \* the end before the start
      [] kind = "negative" -> Row(Str(<<"A">>), Str(<<"x">>), Dmy1050, Dmy1030)
      \* a job named like a property every object inherits
      [] kind = "inherited" ->
            Row(Str(<<"t", "o", "S", "t", "r", "i", "n", "g">>), Str(<<"x">>), Dmy1030, Dmy1050)

HeaderCellKinds == {"missing", "empty", "truncated", "other", "suffix", "prefix"}

\* what the header cell of a column holds
HeaderCellOf(key, kind) ==
    CASE kind = "exact" -> Str(HEADERS[key])
      [] kind = "missing" -> Undefined
      [] kind = "empty" -> Str(<<>>)
      [] kind = "truncated" -> Str(SubSeq(HEADERS[key], 1, Len(HEADERS[key]) - 1))
      [] kind = "other" -> Str(<<"T", "o", "t", "a", "l">>)
      [] kind = "suffix" -> Str(HEADERS[key] \o <<" ", "(", "U", "T", "C", ")">>)
      [] kind = "prefix" -> Str(<<"#", " ">> \o HEADERS[key])

ExactHeader == [key |-> "", cell |-> "exact"]

\* the header row: the label of each column, but for the one cell header.key
HeaderRowOf(header) ==
    [c \in {COLUMNS[ColumnKeys[i]] : i \in 1..Len(ColumnKeys)} |->
        HeaderCellOf(CHOOSE k \in DOMAIN COLUMNS : COLUMNS[k] = c,
                     IF header.key # "" /\ COLUMNS[header.key] = c THEN header.cell ELSE "exact")]

File(name, readable, header, rows) ==
    [name |-> name, readable |-> readable, header |-> header, rows |-> rows]

\* workbook.Sheets[workbook.SheetNames[0]]: blank rows above the header row,
\* the header row, and the rows of the file below it
FirstSheet(file) ==
    [r \in 1..(HEADER_ROW - 1) |-> BlankRow]
    \o <<HeaderRowOf(file.header)>>
    \o [i \in 1..Len(file.rows) |-> RowOf(file.rows[i])]

(***************************************************************************)
(* A sheet is the sequence of its rows, indexed by the spreadsheet's row   *)
(* number; a row gives the value of its cell in each of the four columns   *)
(* the code reads (Undefined where the cell is empty).                     *)
(***************************************************************************)
\* sheet[`${column}${row}`]?.v
Cell(sheet, column, row) ==
    IF row \in 1..Len(sheet) THEN sheet[row][column] ELSE Undefined

\* HeaderMissing comparing the cell with the label
HeaderMissingUnlessEqual(sheet, key) ==
    Cell(sheet, COLUMNS[key], HEADER_ROW) # Str(HEADERS[key])

\* the test of validateHeaders for one column: TRUE when it throws
HeaderMissing(sheet, key) ==
    LET cellValue == Cell(sheet, COLUMNS[key], HEADER_ROW)
    IN  Falsy(cellValue) \/ ~Includes(ToText(cellValue), HEADERS[key])

\* validateHeaders leaving the last column out
validateHeadersButLast(sheet) ==
    \A i \in 1..(Len(ColumnKeys) - 1) : ~HeaderMissing(sheet, ColumnKeys[i])

\* DataProcessor.validateHeaders: TRUE when no ValidationError is thrown
validateHeaders(sheet) ==
    \A i \in 1..Len(ColumnKeys) : ~HeaderMissing(sheet, ColumnKeys[i])

\* DataProcessor.createHeaderArray: the field named after each column read
createHeaderArray ==
    [jobName       |-> COLUMNS.JOB_NAME,
     agentName     |-> COLUMNS.AGENT_NAME,
     startDateTime |-> COLUMNS.START_DATETIME,
     endDateTime   |-> COLUMNS.END_DATETIME]

\* a row without any cell, which the spreadsheet library leaves out
IsBlankRow(row) == \A c \in DOMAIN row : row[c] = Undefined

\* XLSX.utils.sheet_to_json(sheet, {range, header, raw: false}) followed by
\* filterRelevantColumns: range is the zero-based index of the first row read.
\* The field source is history information the program does not keep: the
\* file and the spreadsheet row a row object was read from.
sheet_to_json(name, sheet, range, header) ==
    LET Field(r, f) == Cell(sheet, header[f], r)
        RowObject(r) == [jobName       |-> Field(r, "jobName"),
                         agentName     |-> Field(r, "agentName"),
                         startDateTime |-> Field(r, "startDateTime"),
                         endDateTime   |-> Field(r, "endDateTime"),
                         source        |-> [file |-> name, row |-> r]]
        F[r \in 0..Len(sheet)] ==
            IF r = 0 THEN <<>>
            ELSE IF r >= range + 1 /\ ~IsBlankRow(sheet[r])
                THEN F[r - 1] \o <<RowObject(r)>>
            ELSE F[r - 1]
    IN  F[Len(sheet)]

\* DataProcessor.readFile: the rows read, or the FileError the promise is
\* rejected with
readFile(file) ==
    IF ~file.readable
        THEN [ok |-> FALSE, error |-> "FileError", cause |-> "read", data |-> <<>>]
    ELSE IF ~validateHeaders(FirstSheet(file))
        THEN [ok |-> FALSE, error |-> "FileError", cause |-> "ValidationError", data |-> <<>>]
    ELSE [ok |-> TRUE, error |-> "", cause |-> "",
          data |-> sheet_to_json(file.name, FirstSheet(file), DATA_START_ROW, createHeaderArray)]

(***************************************************************************)
(* Row normaliser.                                                         *)
(***************************************************************************)
\* String(name || "").trim()
NameText(v) == IF Falsy(v) THEN <<>> ELSE Trim(ToText(v))

\* (endDate - startDate) / (1000 * 60): both time values are whole minutes
DurationMinutes(startDate, endDate) == (endDate.time - startDate.time) \div 60

\* RecordOf without the test of the duration
RecordOfUnchecked(row, startDate, endDate) ==
    IF startDate = Null \/ endDate = Null THEN Null
    ELSE [jobName       |-> NameText(row.jobName),
          agentName     |-> NameText(row.agentName),
          startDateTime |-> startDate,
          endDateTime   |-> endDate,
          duration      |-> DurationMinutes(startDate, endDate),
          source        |-> row.source]

\* the record processRow builds from a row and its two parsed dates, or Null
RecordOf(row, startDate, endDate) ==
    IF startDate = Null \/ endDate = Null THEN Null
    ELSE IF DurationMinutes(startDate, endDate) < 0 THEN Null
    ELSE [jobName       |-> NameText(row.jobName),
          agentName     |-> NameText(row.agentName),
          startDateTime |-> startDate,
          endDateTime   |-> endDate,
          duration      |-> DurationMinutes(startDate, endDate),
          source        |-> row.source]

\* DataProcessor.processRow: the record of the row, or Null
processRow(row) ==
    RecordOf(row, parseDateTime(row.startDateTime), parseDateTime(row.endDateTime))

\* data.map(processRow).filter(row => row !== null)
MapProcessRow(data) == [i \in 1..Len(data) |-> processRow(data[i])]

\* processFileData giving up at the first row that is not valid
processFileDataUntilInvalid(data) ==
    SubSeq(MapProcessRow(data), 1,
           IF \E i \in 1..Len(data) : MapProcessRow(data)[i] = Null
           THEN (CHOOSE i \in 1..Len(data) :
                    MapProcessRow(data)[i] = Null
                    /\ \A j \in 1..(i - 1) : MapProcessRow(data)[j] # Null) - 1
           ELSE Len(data))

\* DataProcessor.processFileData, for data that is not empty
processFileData(data) == SelectSeq(MapProcessRow(data), LAMBDA r : r # Null)

\* the test that makes processFileData throw a DataError
DataEmpty(data) == Len(data) = 0

(***************************************************************************)
(* Utils: calculateStats, groupBy, formatDuration.  A mean is kept as the  *)
(* exact fraction sum / count and a variance as sqdev / count^3, where     *)
(* sqdev is the sum of (count * value - sum)^2; std is its square root.    *)
(***************************************************************************)
RECURSIVE SumSeq(_)
SumSeq(values) == IF values = <<>> THEN 0 ELSE Head(values) + SumSeq(Tail(values))

SeqMin(values) == CHOOSE v \in {values[i] : i \in 1..Len(values)} :
                      \A i \in 1..Len(values) : v <= values[i]

SeqMax(values) == CHOOSE v \in {values[i] : i \in 1..Len(values)} :
                      \A i \in 1..Len(values) : v >= values[i]

\* Utils.calculateStats, for values that are not empty
calculateStats(values) ==
    LET n   == Len(values)
        sum == SumSeq(values)
    IN  [min   |-> SeqMin(values),
         max   |-> SeqMax(values),
         sum   |-> sum,
         sqdev |-> SumSeq([i \in 1..n |-> (n * values[i] - sum) * (n * values[i] - sum)]),
         count |-> n]

\* Utils.formatDuration of the fraction num / den of minutes
formatDuration(num, den) ==
    LET hours == num \div (60 * den)
        rest  == num - 60 * den * hours
    IN  [hours |-> hours, minutes |-> (2 * rest + den) \div (2 * den)]

\* names every object inherits: groups[name] is then not a list of items
InheritedKeys ==
    {<<"c", "o", "n", "s", "t", "r", "u", "c", "t", "o", "r">>,
     <<"t", "o", "S", "t", "r", "i", "n", "g">>}

\* Utils.groupBy(array, "jobName") throws a TypeError on group.push
groupByThrows(array) == \E i \in 1..Len(array) : array[i].jobName \in InheritedKeys

\* Utils.groupBy(array, "jobName"): the items of each job, in their order
groupBy(array) ==
    [job \in {array[i].jobName : i \in 1..Len(array)} |->
        SelectSeq(array, LAMBDA item : item.jobName = job)]

\* DataProcessor.calculateStatistics: the value stored in this.statistics
calculateStatistics(data) ==
    LET jobGroups == groupBy(data)
    IN  [job \in DOMAIN jobGroups |->
            LET jobs       == jobGroups[job]
                durations  == [i \in 1..Len(jobs) |-> jobs[i].duration]
                basicStats == calculateStats(durations)
            IN  [min             |-> basicStats.min,
                 max             |-> basicStats.max,
                 sum             |-> basicStats.sum,
                 sqdev           |-> basicStats.sqdev,
                 count           |-> basicStats.count,
                 totalExecutions |-> Len(jobs),
                 uniqueAgents    |-> Cardinality({jobs[i].agentName : i \in 1..Len(jobs)}),
                 averageDuration |-> formatDuration(basicStats.sum, basicStats.count),
                 minDuration     |-> formatDuration(basicStats.min, 1),
                 maxDuration     |-> formatDuration(basicStats.max, 1)]]

SeqsUpTo(S, n) == UNION {[1..k -> S] : k \in 0..n}

(***************************************************************************)
(* CONFIG, as far as the analysis reads it, and Object.freeze.  An object  *)
(* is named by the path that leads to it from CONFIG.                      *)
(***************************************************************************)
OVERDUE_THRESHOLD == 1

MIN_EXECUTIONS == 3

CONFIG ==
    [EXCEL    |-> [HEADER_ROW |-> HEADER_ROW, DATA_START_ROW |-> DATA_START_ROW],
     ANALYSIS |-> [OVERDUE_THRESHOLD |-> OVERDUE_THRESHOLD, MIN_EXECUTIONS |-> MIN_EXECUTIONS]]

\* Object.freeze(CONFIG) freezes the object it is given and no object inside it
FrozenObjects == {<<>>}

\* object[property] = v on the object at the path parent: no effect on a
\* frozen object
AssignProperty(cfg, parent, property, v) ==
    IF parent \in FrozenObjects THEN cfg
    ELSE IF parent = <<>> THEN [cfg EXCEPT ![property] = v]
    ELSE [cfg EXCEPT ![parent[1]][property] = v]

(***************************************************************************)
(* ExportManager.  A value written with toFixed(2) is kept in hundredths.  *)
(***************************************************************************)
\* (num / den).toFixed(2), in hundredths
ToFixed2(num, den) == (200 * num + den) \div (2 * den)

\* Math.round(scale * Math.sqrt(num / den)), which is at most limit
RoundedRoot(scale, num, den, limit) ==
    CHOOSE h \in 0..limit :
        /\ (h = 0 \/ (2 * h - 1) * (2 * h - 1) * den <= 4 * scale * scale * num)
        /\ (2 * h + 1) * (2 * h + 1) * den > 4 * scale * scale * num

\* Math.floor(Math.sqrt(num / den) / 60), which is at most limit
RootHours(num, den, limit) ==
    CHOOSE h \in 0..limit :
        /\ 3600 * h * h * den <= num
        /\ 3600 * (h + 1) * (h + 1) * den > num

\* Utils.formatDuration(stats.std) for durations of less than an hour
formatDurationOfStd(stats) ==
    [hours   |-> RootHours(stats.sqdev, stats.count * stats.count * stats.count,
                           stats.max - stats.min),
     minutes |-> RoundedRoot(1, stats.sqdev, stats.count * stats.count * stats.count,
                             stats.max - stats.min)]

\* ExportManager.calculateStatistics counting the executions as agents
ExportManager_calculateStatisticsAgentPerJob(data) ==
    LET jobGroups == groupBy(data)
    IN  [job \in DOMAIN jobGroups |->
            LET jobs      == jobGroups[job]
                durations == [i \in 1..Len(jobs) |-> jobs[i].duration]
                n         == Len(durations)
                sum       == SumSeq(durations)
            IN  [sum    |-> sum,
                 sqdev  |-> SumSeq([i \in 1..n |->
                                (n * durations[i] - sum) * (n * durations[i] - sum)]),
                 min    |-> SeqMin(durations),
                 max    |-> SeqMax(durations),
                 count  |-> Len(jobs),
                 agents |-> Len(jobs)]]

\* ExportManager.calculateStatistics: mean is sum / count, std the square root
\* of sqdev / count^3
ExportManager_calculateStatistics(data) ==
    LET jobGroups == groupBy(data)
    IN  [job \in DOMAIN jobGroups |->
            LET jobs      == jobGroups[job]
                durations == [i \in 1..Len(jobs) |-> jobs[i].duration]
                n         == Len(durations)
                sum       == SumSeq(durations)
            IN  [sum    |-> sum,
                 sqdev  |-> SumSeq([i \in 1..n |->
                                (n * durations[i] - sum) * (n * durations[i] - sum)]),
                 min    |-> SeqMin(durations),
                 max    |-> SeqMax(durations),
                 count  |-> Len(jobs),
                 agents |-> Cardinality({jobs[i].agentName : i \in 1..Len(jobs)})]]

\* j.duration further than k * std from the mean, on either side of it
ExceedsOnEitherSide(duration, stats, k) ==
    stats.count * (stats.count * duration - stats.sum)
                * (stats.count * duration - stats.sum) > k * k * stats.sqdev

\* j.duration > overdueThreshold with >= in its place
ExceedsOrEquals(duration, stats, k) ==
    /\ stats.count * duration - stats.sum >= 0
    /\ stats.count * (stats.count * duration - stats.sum)
                   * (stats.count * duration - stats.sum) >= k * k * stats.sqdev

\* j.duration > stats.mean + stats.std * k, for k >= 0: with n = count,
\* n * duration - sum > 0 and n * (n * duration - sum)^2 > k^2 * sqdev
Exceeds(duration, stats, k) ==
    /\ stats.count * duration - stats.sum > 0
    /\ stats.count * (stats.count * duration - stats.sum)
                   * (stats.count * duration - stats.sum) > k * k * stats.sqdev

\* the entry of calculateOverdueAnalysis for one job
OverdueEntry(jobs, counted, stats, k) ==
    [overdueCount      |-> Len(SelectSeq(counted, LAMBDA j : Exceeds(j.duration, stats, k))),
     totalExecutions   |-> Len(jobs),
     overduePercentage |-> [num |-> 100 * Len(SelectSeq(counted,
                                            LAMBDA j : Exceeds(j.duration, stats, k))),
                            den |-> Len(jobs)],
     averageDuration   |-> formatDuration(stats.sum, stats.count),
     standardDeviation |-> formatDurationOfStd(stats)]

\* calculateOverdueAnalysis counting the overdue items in all the data
calculateOverdueAnalysisInAllData(data, k) ==
    [job \in DOMAIN groupBy(data) |->
        OverdueEntry(groupBy(data)[job], data,
                     calculateStats([i \in 1..Len(groupBy(data)[job]) |->
                                        groupBy(data)[job][i].duration]), k)]

\* ExportManager.calculateOverdueAnalysis, k being CONFIG.ANALYSIS.OVERDUE_THRESHOLD
calculateOverdueAnalysis(data, k) ==
    [job \in DOMAIN groupBy(data) |->
        OverdueEntry(groupBy(data)[job], groupBy(data)[job],
                     calculateStats([i \in 1..Len(groupBy(data)[job]) |->
                                        groupBy(data)[job][i].duration]), k)]

\* ExportManager.prepareStatisticsData: one row per job
prepareStatisticsData(stats) ==
    {[Job       |-> job,
      mean      |-> ToFixed2(stats[job].sum, stats[job].count),
      std       |-> RoundedRoot(100, stats[job].sqdev,
                                stats[job].count * stats[job].count * stats[job].count,
                                100 * (stats[job].max - stats[job].min)),
      min       |-> ToFixed2(stats[job].min, 1),
      max       |-> ToFixed2(stats[job].max, 1),
      Execucoes |-> stats[job].count,
      Agentes   |-> stats[job].agents] : job \in DOMAIN stats}

\* ExportManager.prepareOverdueData: one row per job
prepareOverdueData(analysis) ==
    {[Job               |-> job,
      overduePercentage |-> ToFixed2(analysis[job].overduePercentage.num,
                                     analysis[job].overduePercentage.den),
      overdueCount      |-> analysis[job].overdueCount,
      totalExecutions   |-> analysis[job].totalExecutions,
      averageDuration   |-> analysis[job].averageDuration,
      standardDeviation |-> analysis[job].standardDeviation] : job \in DOMAIN analysis}

\* ChartManager.createOverdueFrequencyChart: the colour of the bar of each job
createOverdueFrequencyChart(overdueData) ==
    [job \in DOMAIN overdueData |->
        IF overdueData[job].overduePercentage.num > 50 * overdueData[job].overduePercentage.den
        THEN "#e74c3c" ELSE "#3498db"]

NotExported == [status |-> "none", threshold |-> 0, statistics |-> <<>>, analysis |-> <<>>,
                wsStats |-> {}, wsOverdue |-> {}]

\* ExportManager.exportToXLSX: what it computes and the sheets it writes, or
\* the ExportError it throws when Utils.groupBy throws
exportToXLSX(data, k) ==
    IF groupByThrows(data)
    THEN [status |-> "ExportError", threshold |-> k, statistics |-> <<>>, analysis |-> <<>>,
          wsStats |-> {}, wsOverdue |-> {}]
    ELSE [status     |-> "written",
          threshold  |-> k,
          statistics |-> ExportManager_calculateStatistics(data),
          analysis   |-> calculateOverdueAnalysis(data, k),
          wsStats    |-> prepareStatisticsData(ExportManager_calculateStatistics(data)),
          wsOverdue  |-> prepareOverdueData(calculateOverdueAnalysis(data, k))]

(***************************************************************************)
(* The records an ExportManager is given: those of at most MaxRecords      *)
(* executions of two jobs, and of a job with the name of an inherited      *)
(* property.                                                               *)
(***************************************************************************)
Execution(job, agent, duration) == [jobName |-> job, agentName |-> agent, duration |-> duration]

Executions ==
    {Execution(<<"A">>, <<"x">>, 10), Execution(<<"A">>, <<"x">>, 20),
     Execution(<<"A">>, <<"y">>, 30), Execution(<<"B">>, <<"x">>, 10),
     Execution(<<"B">>, <<"y">>, 30),
     Execution(<<"t", "o", "S", "t", "r", "i", "n", "g">>, <<"x">>, 20)}

DataSets == SeqsUpTo(Executions, MaxRecords)

(***************************************************************************)
(* The disks: one with three files to select together, and one for each    *)
(* single file of the families below.                                      *)
(***************************************************************************)

\* the exact header row, a blank row below it, then every choice of rows
RowTestFiles ==
    {File("rows.xlsx", TRUE, ExactHeader, <<"blank">> \o rows) : rows \in SeqsUpTo(RowKinds, MaxRows)}

\* well-formed rows below every choice of header row
HeaderTestFiles ==
    {File("header.xlsx", TRUE, h, <<"valid", "valid", "noAgent">>) :
        h \in {ExactHeader} \cup
              {[key |-> ColumnKeys[i], cell |-> k] : i \in 1..Len(ColumnKeys), k \in HeaderCellKinds}}

InheritedKeyFile == File("inherited.xlsx", TRUE, ExactHeader, <<"blank", "valid", "inherited">>)

FileG1 == File("g1.xlsx", TRUE, ExactHeader, <<"blank", "valid", "badEnd", "noAgent">>)

FileG2 == File("g2.xlsx", TRUE, ExactHeader, <<"blank", "noJob", "valid">>)

FileU == File("u.xlsx", FALSE, ExactHeader, <<>>)

FileH == File("h.xlsx", TRUE, [key |-> "JOB_NAME", cell |-> "missing"], <<"blank", "valid">>)

FileE == File("e.xlsx", TRUE, ExactHeader, <<>>)

BatchDisk == {FileG1, FileG2, FileU}

\* three files that fail, each for its own reason
ErrorDisk == {FileU, FileH, FileE}

Disks ==
    {BatchDisk, ErrorDisk}
        \cup {{f} : f \in RowTestFiles \cup HeaderTestFiles \cup {InheritedKeyFile}}

AllFiles == UNION Disks

\* what readFile gives for each file: reading depends on the file alone
ReadResult == [f \in AllFiles |-> readFile(f)]

\* the test that makes processFileData throw, and its result otherwise, for the
\* rows read from each file
Processed ==
    [f \in AllFiles |->
        IF ReadResult[f].ok /\ ~DataEmpty(ReadResult[f].data)
        THEN [ok |-> TRUE, records |-> processFileData(ReadResult[f].data)]
        ELSE [ok |-> FALSE, records |-> <<>>]]

\* the selections of at most MaxFiles distinct files of a disk, in any order
Batches(d) ==
    {b \in SeqsUpTo(d, MaxFiles) :
        Len(b) >= 1 /\ \A i, j \in 1..Len(b) : i # j => b[i] # b[j]}

(***************************************************************************)
(* State.                                                                  *)
(*   disk           the files the user can select                          *)
(*   rawData, processedData, statistics   the fields of the DataProcessor  *)
(*   calls          the processFiles calls in flight, one per caller       *)
(*   last           the call that has just settled, with what it returned  *)
(*                  or threw (history)                                     *)
(*   prev           the last call before that which ran on its own and     *)
(*                  returned (history)                                     *)
(*   errorMessages  the message in the errorMessages element of the page   *)
(*   exportData     the records of the ExportManager (this.data)           *)
(*   exported       what its last exportToXLSX computed and wrote          *)
(*   config         the value of CONFIG                                    *)
(*   values, parsed the values handed to parseDateTime one after the other *)
(*                  and what it returned for them                          *)
(*   elements       the script elements of the document, by id             *)
(*   promises       the promises loadScript returned to each caller of     *)
(*                  ResourceLoader.initialize, by id                       *)
(*   loads          how each call of ResourceLoader.initialize stands      *)
(*   loadingManager the loading states of window.loadingManager, and       *)
(*                  whether its overlay is hidden                          *)
(*   app            the JobAnalyzerApp and the elements of the page it     *)
(*                  writes: initialized, whether an ExportManager has been *)
(*                  created, the export buttons, the success message, and  *)
(*                  the loading ids generated for its processFiles calls   *)
(***************************************************************************)
VARIABLES disk, rawData, processedData, statistics, calls, last, prev, errorMessages,
          exportData, exported, config, values, parsed, elements, promises, loads,
          loadingManager, app

processorVars == <<disk, rawData, processedData, statistics, calls, last, prev, errorMessages>>

exportVars == <<exportData, exported, config>>

parserVars == <<values, parsed>>

loaderVars == <<elements, promises, loads>>

appVars == <<loadingManager, app>>

vars == <<processorVars, exportVars, parserVars, loaderVars, appVars>>

\* two clicks on the process button can be in progress at once
Callers == {"click1", "click2"}

Idle == [st |-> "idle", files |-> <<>>, i |-> 0, alone |-> TRUE]

NoCall == [kind |-> "none", files |-> <<>>, value |-> <<>>, stats |-> <<>>,
           alone |-> TRUE, at |-> 0, cause |-> "", message |-> "", original |-> <<>>]

\* the message of the ProcessingError thrown by DataProcessor.processFiles
ProcessingErrorMessage == "Erro no processamento de arquivos"

\* the message of the error processFiles has caught, by what made it fail
OriginalMessage(cause, name) ==
    CASE cause = "read"            -> <<"Erro na leitura do arquivo", name>>
      [] cause = "ValidationError" -> <<"Erro ao ler arquivo", name>>
      [] cause = "DataError"       -> <<"Arquivo vazio ou sem dados válidos">>
      [] OTHER                     -> <<"group.push is not a function">>

\* processor.calculateOverdueAnalysis is not defined by DataProcessor
NotAFunctionMessage == "this.components.processor.calculateOverdueAnalysis is not a function"

NoRun == [kind |-> "none", files |-> <<>>, value |-> <<>>, stats |-> <<>>]

InFlight(c) == calls[c].st = "reading"

\* reset leaving the records in place
resetKeepsRecords == [rawData |-> <<>>, processedData |-> processedData, statistics |-> <<>>]

\* reset leaving the statistics in place
resetKeepsStatistics == [rawData |-> <<>>, processedData |-> <<>>, statistics |-> statistics]

\* DataProcessor.reset: the values it gives the three fields
reset == [rawData |-> <<>>, processedData |-> <<>>, statistics |-> <<>>]

\* the rows of the file put in front of the records held
AccumulateInFront(held, processedFileData) == processedFileData \o held

\* this.processedData = [...this.processedData, ...processedFileData]
Accumulate(held, processedFileData) == held \o processedFileData

\* history: a call that ran on its own and returned is remembered
Remember ==
    IF last.kind = "resolved" /\ last.alone
    THEN [kind |-> "run", files |-> last.files, value |-> last.value, stats |-> last.stats]
    ELSE prev

\* no ExportManager is in use
NoExport ==
    /\ exportData = <<>>
    /\ exported = NotExported
    /\ config = CONFIG

\* parseDateTime is not in use
NoParse ==
    /\ values = <<>>
    /\ parsed = <<>>

ScriptIds == {"xlsx-script", "plotly-script", "jspdf-script"}

Loaders == {"load1", "load2"}

\* no script element is in the document and ResourceLoader is not in use
NoLoad ==
    /\ elements = [id \in ScriptIds |-> [state |-> "absent", added |-> 0, owner |-> ""]]
    /\ promises = [c \in Loaders |-> [id \in ScriptIds |-> "none"]]
    /\ loads = [c \in Loaders |-> "none"]

\* a loading id: one of the fixed names, or the n-th id generated by
\* Utils.generateUniqueId
LoadingId(name, n) == [name |-> name, n |-> n]

\* new JobAnalyzerApp() and new LoadingManager(), on a page whose overlay is
\* hidden and whose export buttons are disabled
NewApp ==
    /\ loadingManager = [loadingStates |-> {}, hidden |-> TRUE]
    /\ app = [initialized |-> FALSE, exportManager |-> FALSE, exportButtons |-> "disabled",
              successMessages |-> "", generated |-> 0,
              loadingId |-> [c \in Callers |-> 0]]

Init ==
    /\ disk \in Disks
    /\ rawData = <<>>
    /\ processedData = <<>>
    /\ statistics = <<>>
    /\ calls = [c \in Callers |-> Idle]
    /\ last = NoCall
    /\ prev = NoRun
    /\ errorMessages = ""
    /\ NoExport
    /\ NoParse
    /\ NoLoad
    /\ NewApp

\* A click on the process button with the files selected: JobAnalyzerApp.processFiles
\* calls DataProcessor.processFiles, which resets the processor and starts to
\* read the first file.
ProcessFilesStart(c, files) ==
    /\ ~InFlight(c)
    /\ files \in Batches(disk)
    /\ rawData' = reset.rawData
    /\ processedData' = reset.processedData
    /\ statistics' = reset.statistics
    /\ calls' = [k \in Callers |->
                    IF k = c
                    THEN [st |-> "reading", files |-> files, i |-> 1,
                          alone |-> \A o \in Callers \ {c} : ~InFlight(o)]
                    ELSE [calls[k] EXCEPT !.alone = ~InFlight(k)]]
    /\ last' = NoCall
    /\ prev' = Remember
    /\ UNCHANGED <<disk, errorMessages, exportVars, parserVars, loaderVars, appVars>>

\* the file a call is waiting for
Current(c) == calls[c].files[calls[c].i]

\* this.processedData once the rows of the file a call waits for are appended
Loaded(c) == Accumulate(processedData, Processed[Current(c)].records)

\* The file is read and is not the last one: its rows are normalised and
\* appended, and the read of the next file starts.
FileLoadedNext(c) ==
    /\ InFlight(c)
    /\ calls[c].i < Len(calls[c].files)
    /\ Processed[Current(c)].ok
    /\ processedData' = Loaded(c)
    /\ calls' = [calls EXCEPT ![c].i = @ + 1]
    /\ last' = NoCall
    /\ prev' = Remember
    /\ UNCHANGED <<disk, rawData, statistics, errorMessages, exportVars, parserVars, loaderVars, appVars>>

\* calculateStatistics succeeds on the accumulated records: the call returns
\* this.processedData, and JobAnalyzerApp.processFiles goes on to
\* processor.calculateOverdueAnalysis(), whose TypeError it shows
Returns(c, data) ==
    /\ ~groupByThrows(data)
    /\ processedData' = data
    /\ statistics' = calculateStatistics(data)
    /\ last' = [kind |-> "resolved", files |-> calls[c].files, value |-> data,
                stats |-> statistics', alone |-> calls[c].alone,
                at |-> 0, cause |-> "", message |-> "", original |-> <<>>]
    /\ errorMessages' = NotAFunctionMessage

\* calculateStatistics throws in Utils.groupBy: the call throws a ProcessingError
Throws(c, data) ==
    /\ groupByThrows(data)
    /\ processedData' = data
    /\ statistics' = statistics
    /\ last' = [kind |-> "rejected", files |-> calls[c].files, value |-> <<>>,
                stats |-> <<>>, alone |-> calls[c].alone,
                at |-> calls[c].i, cause |-> "TypeError",
                message |-> ProcessingErrorMessage,
                original |-> OriginalMessage("TypeError", "")]
    /\ errorMessages' = ProcessingErrorMessage

\* The last file is read: its rows are appended, the statistics are computed
\* and the call returns this.processedData.
FileLoadedLast(c) ==
    /\ InFlight(c)
    /\ calls[c].i = Len(calls[c].files)
    /\ Processed[Current(c)].ok
    /\ Returns(c, Loaded(c))
    /\ calls' = [calls EXCEPT ![c] = Idle]
    /\ prev' = Remember
    /\ UNCHANGED <<disk, rawData, exportVars, parserVars, loaderVars, appVars>>

\* The last file is read and appended, and calculateStatistics throws in
\* Utils.groupBy: the call throws a ProcessingError.
StatisticsThrows(c) ==
    /\ InFlight(c)
    /\ calls[c].i = Len(calls[c].files)
    /\ Processed[Current(c)].ok
    /\ Throws(c, Loaded(c))
    /\ calls' = [calls EXCEPT ![c] = Idle]
    /\ prev' = Remember
    /\ UNCHANGED <<disk, rawData, exportVars, parserVars, loaderVars, appVars>>

\* what makes the file a call waits for fail
FailureOf(file) == IF ReadResult[file].ok THEN "DataError" ELSE ReadResult[file].cause

\* The read fails, the headers are not valid, or the file has no data row:
\* the call throws a ProcessingError, whose message the application shows.
FileRejected(c) ==
    /\ InFlight(c)
    /\ ~Processed[Current(c)].ok
    /\ last' = [kind |-> "rejected", files |-> calls[c].files, value |-> <<>>,
                stats |-> <<>>, alone |-> calls[c].alone,
                at |-> calls[c].i,
                cause |-> FailureOf(Current(c)),
                message |-> ProcessingErrorMessage,
                original |-> OriginalMessage(FailureOf(Current(c)), Current(c).name)]
    /\ errorMessages' = ProcessingErrorMessage
    /\ calls' = [calls EXCEPT ![c] = Idle]
    /\ prev' = Remember
    /\ UNCHANGED <<disk, rawData, processedData, statistics, exportVars, parserVars, loaderVars, appVars>>

Next ==
    \/ \E c \in Callers : \E files \in Batches(disk) : ProcessFilesStart(c, files)
    \/ \E c \in Callers : FileLoadedNext(c)
    \/ \E c \in Callers : FileLoadedLast(c)
    \/ \E c \in Callers : StatisticsThrows(c)
    \/ \E c \in Callers : FileRejected(c)

Spec == Init /\ [][Next]_vars

(***************************************************************************)
(* The ExportManager on its own: it is given the records a processFiles    *)
(* call left in the DataProcessor (new ExportManager(processedData)), and  *)
(* its exportToXLSX runs any number of times, while the DataProcessor may  *)
(* be reset and properties of CONFIG may be assigned.                      *)
(***************************************************************************)
InitExport ==
    /\ disk = {}
    /\ rawData = <<>>
    /\ processedData \in DataSets
    /\ statistics = IF groupByThrows(processedData) THEN <<>>
                    ELSE calculateStatistics(processedData)
    /\ calls = [c \in Callers |-> Idle]
    /\ last = NoCall
    /\ prev = NoRun
    /\ errorMessages = ""
    /\ exportData = processedData
    /\ exported = NotExported
    /\ config = CONFIG
    /\ NoParse
    /\ NoLoad
    /\ NewApp

\* ExportManager.exportToXLSX
ExportToXLSX ==
    /\ exported' = exportToXLSX(exportData, config.ANALYSIS.OVERDUE_THRESHOLD)
    /\ UNCHANGED <<processorVars, exportData, config, parserVars, loaderVars, appVars>>

\* DataProcessor.reset, as the next processFiles call runs it
ProcessorReset ==
    /\ processedData # <<>>
    /\ rawData' = reset.rawData
    /\ processedData' = reset.processedData
    /\ statistics' = reset.statistics
    /\ UNCHANGED <<disk, calls, last, prev, errorMessages, exportVars, parserVars, loaderVars, appVars>>

\* CONFIG.ANALYSIS.OVERDUE_THRESHOLD = k, CONFIG.EXCEL.HEADER_ROW = k, or
\* CONFIG.ANALYSIS = { OVERDUE_THRESHOLD: k, ... }
AssignConfig(parent, property, v) ==
    /\ config' = AssignProperty(config, parent, property, v)
    /\ UNCHANGED <<processorVars, exportData, exported, parserVars, loaderVars, appVars>>

NextExport ==
    \/ ExportToXLSX
    \/ ProcessorReset
    \/ \E k \in {1, 2} :
          \/ AssignConfig(<<"ANALYSIS">>, "OVERDUE_THRESHOLD", k)
          \/ AssignConfig(<<"EXCEL">>, "HEADER_ROW", HEADER_ROW + k - 1)
          \/ AssignConfig(<<>>, "ANALYSIS",
                          [OVERDUE_THRESHOLD |-> k, MIN_EXECUTIONS |-> MIN_EXECUTIONS])

SpecExport == InitExport /\ [][NextExport]_vars

(***************************************************************************)
(* parseDateTime on its own: it is handed one value, or the two values of  *)
(* a row (start and end), one after the other.  The values are the texts   *)
(* of calendar dates written day/month/year and in ISO form, and texts and *)
(* values of other kinds.                                                  *)
(***************************************************************************)
Days == {<<"1", "3">>, <<"1", "5">>, <<"2", "8">>, <<"3", "1">>}

Months == {<<"0", "1">>, <<"0", "3">>, <<"1", "2">>}

Years == {<<"2", "0", "2", "3">>, <<"2", "0", "2", "4">>}

Times == {<<"1", "0", ":", "3", "0", ":", "0", "0">>, <<"0", "0", ":", "0", "0", ":", "0", "0">>, <<"2", "3", ":", "5", "9", ":", "5", "9">>}

Calendars == [day : Days, month : Months, year : Years, time : Times]

\* dd/mm/yyyy hh:mm:ss
DmyText(c) == c.day \o <<"/">> \o c.month \o <<"/">> \o c.year \o <<Space>> \o c.time

\* yyyy-mm-ddThh:mm:ss
IsoText(c) == c.year \o <<"-">> \o c.month \o <<"-">> \o c.day \o <<"T">> \o c.time

OtherValues ==
    <<Undefined, Null, InvalidDate, DateOf(1710509400),
     Str(<<>>), Str(<<Space>>), NotADate, Dmy1100,
     Str(<<"0", "3", "/", "0", "4", "/", "2", "0", "2", "4", " ", "1", "0", ":", "3", "0", ":", "0", "0">>),
     Str(<<" ", " ", "1", "5", "/", "0", "3", "/", "2", "0", "2", "4", " ", " ", " ", "1", "0", ":", "3", "0", ":", "0", "0", " ">>),
     Str(<<"1", "5", "/", "0", "3", "/", "2", "0", "2", "4">>),
     Str(<<"2", "0", "2", "4", "-", "0", "3", "-", "1", "5">>),
     Str(<<"2", "0", "2", "4", "-", "0", "3", "-", "1", "5", " ", "1", "0", ":", "3", "0">>)>>

CalendarPairs == {<<Str(DmyText(c)), Str(IsoText(c))>> : c \in Calendars}

InitParse ==
    /\ disk = {}
    /\ rawData = <<>>
    /\ processedData = <<>>
    /\ statistics = <<>>
    /\ calls = [c \in Callers |-> Idle]
    /\ last = NoCall
    /\ prev = NoRun
    /\ errorMessages = ""
    /\ NoExport
    /\ \/ values \in CalendarPairs
       \/ \E k \in 1..Len(OtherValues) :
             values = <<OtherValues[k]>> \/ values = <<Dmy1030, OtherValues[k]>>
    /\ parsed = <<>>
    /\ NoLoad
    /\ NewApp

\* parseDateTime(value) for the next value
ParseNext ==
    /\ Len(parsed) < Len(values)
    /\ parsed' = Append(parsed, parseDateTime(values[Len(parsed) + 1]))
    /\ UNCHANGED <<processorVars, exportVars, values, loaderVars, appVars>>

NextParse == ParseNext

SpecParse == InitParse /\ [][NextParse]_vars

(***************************************************************************)
(* ResourceLoader on its own.  An element is absent, loading, loaded or    *)
(* failed; added counts the script elements appended with its id, and      *)
(* owner is the call whose promise its onload and onerror settle.  A       *)
(* global (XLSX, Plotly, jspdf) is defined once its script is loaded.      *)
(***************************************************************************)
InitLoad ==
    /\ disk = {}
    /\ rawData = <<>>
    /\ processedData = <<>>
    /\ statistics = <<>>
    /\ calls = [c \in Callers |-> Idle]
    /\ last = NoCall
    /\ prev = NoRun
    /\ errorMessages = ""
    /\ NoExport
    /\ NoParse
    /\ NoLoad
    /\ NewApp

\* ResourceLoader.loadScript(src, id): the promise it returns, as it stands
\* when the call returns
loadScript(id) == IF elements[id].state # "absent" THEN "resolved" ELSE "pending"

\* ResourceLoader.checkDependencies with the elements els
checkDependencies(els) == \A id \in ScriptIds : els[id].state = "loaded"

\* what follows await Promise.all(loadingTasks) for the promises ps, with the
\* elements els; before it, the call stands as it did
AfterPromiseAll(before, ps, els) ==
    IF before # "pending" THEN before
    ELSE IF \E id \in ScriptIds : ps[id] = "rejected" THEN "ResourceLoadError"
    ELSE IF \A id \in ScriptIds : ps[id] = "resolved"
        THEN (IF checkDependencies(els) THEN "ok" ELSE "ResourceLoadError")
    ELSE "pending"

\* ResourceLoader.initialize: the three loadScript calls, and what follows
\* Promise.all when every promise is resolved at once
Initialize(c) ==
    /\ loads[c] # "pending"
    /\ elements' = [id \in ScriptIds |->
                       IF elements[id].state # "absent" THEN elements[id]
                       ELSE [state |-> "loading", added |-> elements[id].added + 1,
                             owner |-> c]]
    /\ promises' = [promises EXCEPT ![c] = [id \in ScriptIds |-> loadScript(id)]]
    /\ loads' = [loads EXCEPT ![c] = AfterPromiseAll("pending", promises'[c], elements')]
    /\ UNCHANGED <<processorVars, exportVars, parserVars, appVars>>

\* script.onload: the promise of the call that added the element is resolved
ScriptLoaded(id) ==
    /\ elements[id].state = "loading"
    /\ elements' = [elements EXCEPT ![id].state = "loaded"]
    /\ promises' = [promises EXCEPT ![elements[id].owner][id] = "resolved"]
    /\ loads' = [loads EXCEPT ![elements[id].owner] =
                    AfterPromiseAll(@, promises'[elements[id].owner], elements')]
    /\ UNCHANGED <<processorVars, exportVars, parserVars, appVars>>

\* script.onerror: the promise of the call that added the element is rejected
ScriptFailed(id) ==
    /\ elements[id].state = "loading"
    /\ elements' = [elements EXCEPT ![id].state = "failed"]
    /\ promises' = [promises EXCEPT ![elements[id].owner][id] = "rejected"]
    /\ loads' = [loads EXCEPT ![elements[id].owner] =
                    AfterPromiseAll(@, promises'[elements[id].owner], elements')]
    /\ UNCHANGED <<processorVars, exportVars, parserVars, appVars>>

NextLoad ==
    \/ \E c \in Loaders : Initialize(c)
    \/ \E id \in ScriptIds : ScriptLoaded(id)
    \/ \E id \in ScriptIds : ScriptFailed(id)

SpecLoad == InitLoad /\ [][NextLoad]_vars

(***************************************************************************)
(* The application: JobAnalyzerApp.initialize is called twice (load1 is    *)
(* the call of the DOMContentLoaded handler), and once it has set the      *)
(* listeners the process button and the export buttons are clicked.  A     *)
(* processFiles call reads its files in one step here.                     *)
(***************************************************************************)
\* a disk with a file that is processed and one that cannot be read, and
\* one whose file makes calculateStatistics throw
AppDisks == {{FileG1, FileU}, {InheritedKeyFile}}

InitId == LoadingId("init", 0)

ProcessFilesId == LoadingId("process-files", 0)

ExportXLSXId == LoadingId("export-xlsx", 0)

ExportPDFId == LoadingId("export-pdf", 0)

\* Utils.generateUniqueId: the n-th id it returns
generateUniqueId(n) == LoadingId("id", n)

\* LoadingManager.startLoading
startLoading(lm, id) ==
    [loadingStates |-> lm.loadingStates \cup {id},
     hidden        |-> IF Cardinality(lm.loadingStates \cup {id}) = 1 THEN FALSE
                       ELSE lm.hidden]

\* LoadingManager.finishLoading
finishLoading(lm, id) ==
    [loadingStates |-> lm.loadingStates \ {id},
     hidden        |-> lm.loadingStates \ {id} = {}]

\* what the page shows when initialize fails: showError in initialize, then
\* the message of the DOMContentLoaded handler for its own call
InitFailureMessage(l) ==
    IF l = "load1"
    THEN "Falha ao inicializar a aplicação. Por favor, recarregue a página."
    ELSE "Falha ao inicializar a aplicação: Falha ao carregar recursos necessários"

NoFilesMessage == "Nenhum arquivo selecionado"

SuccessMessage == "Arquivos processados com sucesso!"

RefusedXLSXMessage == "Erro na exportação XLSX: Nenhum dado processado para exportar"

RefusedPDFMessage == "Erro na exportação PDF: Nenhum dado processado para exportar"

\* JobAnalyzerApp.initialize after await ResourceLoader.initialize(), which
\* stood as before and now stands as after: nothing while it is pending, the
\* components and listeners when it returns, the catch block when it throws
InitializeSettles(l, before, after, lm) ==
    /\ loadingManager' = IF before = "pending" /\ after # "pending"
                         THEN finishLoading(lm, InitId) ELSE lm
    /\ app' = IF before = "pending" /\ after = "ok"
              THEN [app EXCEPT !.initialized = TRUE] ELSE app
    /\ errorMessages' = IF before = "pending" /\ after = "ResourceLoadError"
                        THEN InitFailureMessage(l) ELSE errorMessages

\* JobAnalyzerApp.initialize, up to its return when already initialized or to
\* await ResourceLoader.initialize(), and beyond it when that settles at once
AppInitialize(l) ==
    /\ loads[l] # "pending"
    /\ IF app.initialized
       THEN /\ loadingManager' = startLoading(loadingManager, InitId)
            /\ UNCHANGED <<app, errorMessages, loaderVars>>
       ELSE /\ elements' = [id \in ScriptIds |->
                               IF elements[id].state # "absent" THEN elements[id]
                               ELSE [state |-> "loading", added |-> elements[id].added + 1,
                                     owner |-> l]]
            /\ promises' = [promises EXCEPT ![l] = [id \in ScriptIds |-> loadScript(id)]]
            /\ loads' = [loads EXCEPT ![l] =
                            AfterPromiseAll("pending", promises'[l], elements')]
            /\ InitializeSettles(l, "pending", loads'[l],
                                 startLoading(loadingManager, InitId))
    /\ last' = NoCall
    /\ UNCHANGED <<disk, rawData, processedData, statistics, calls, prev,
                   exportVars, parserVars>>

\* script.onload, and the initialize call it lets go on
AppScriptLoaded(id) ==
    /\ elements[id].state = "loading"
    /\ elements' = [elements EXCEPT ![id].state = "loaded"]
    /\ promises' = [promises EXCEPT ![elements[id].owner][id] = "resolved"]
    /\ loads' = [loads EXCEPT ![elements[id].owner] =
                    AfterPromiseAll(@, promises'[elements[id].owner], elements')]
    /\ InitializeSettles(elements[id].owner, loads[elements[id].owner],
                         loads'[elements[id].owner], loadingManager)
    /\ last' = NoCall
    /\ UNCHANGED <<disk, rawData, processedData, statistics, calls, prev,
                   exportVars, parserVars>>

\* script.onerror, and the initialize call it makes fail
AppScriptFailed(id) ==
    /\ elements[id].state = "loading"
    /\ elements' = [elements EXCEPT ![id].state = "failed"]
    /\ promises' = [promises EXCEPT ![elements[id].owner][id] = "rejected"]
    /\ loads' = [loads EXCEPT ![elements[id].owner] =
                    AfterPromiseAll(@, promises'[elements[id].owner], elements')]
    /\ InitializeSettles(elements[id].owner, loads[elements[id].owner],
                         loads'[elements[id].owner], loadingManager)
    /\ last' = NoCall
    /\ UNCHANGED <<disk, rawData, processedData, statistics, calls, prev,
                   exportVars, parserVars>>

\* A click on the process button: JobAnalyzerApp.processFiles, which throws a
\* ValidationError when no file is selected, and otherwise calls
\* DataProcessor.processFiles, which resets the processor, starts a loading
\* state of its own and starts to read.
AppProcessFiles(c, files) ==
    /\ app.initialized
    /\ ~InFlight(c)
    /\ IF files = <<>>
       THEN /\ loadingManager' = finishLoading(startLoading(loadingManager, ProcessFilesId),
                                               ProcessFilesId)
            /\ errorMessages' = NoFilesMessage
            /\ UNCHANGED <<rawData, processedData, statistics, calls, app>>
       ELSE /\ app.generated < MaxIds
            /\ rawData' = reset.rawData
            /\ processedData' = reset.processedData
            /\ statistics' = reset.statistics
            /\ app' = [app EXCEPT !.generated = @ + 1, !.loadingId[c] = app.generated + 1]
            /\ loadingManager' = startLoading(startLoading(loadingManager, ProcessFilesId),
                                              generateUniqueId(app.generated + 1))
            /\ calls' = [k \in Callers |->
                            IF k = c
                            THEN [st |-> "reading", files |-> files, i |-> 1,
                                  alone |-> \A o \in Callers \ {c} : ~InFlight(o)]
                            ELSE [calls[k] EXCEPT !.alone = ~InFlight(k)]]
            /\ UNCHANGED errorMessages
    /\ last' = NoCall
    /\ UNCHANGED <<disk, prev, exportVars, parserVars, loaderVars>>

\* the loop of DataProcessor.processFiles from the i-th file on: the records
\* held when it ends, and the file at which it throws, if any
RECURSIVE processAll(_, _, _)
processAll(held, files, i) ==
    IF i > Len(files) THEN [ok |-> TRUE, data |-> held, at |-> 0]
    ELSE IF ~Processed[files[i]].ok THEN [ok |-> FALSE, data |-> held, at |-> i]
    ELSE processAll(Accumulate(held, Processed[files[i]].records), files, i + 1)

\* the methods class DataProcessor defines
DataProcessorMethods ==
    {"reset", "processFiles", "readFile", "validateHeaders", "createHeaderArray",
     "filterRelevantColumns", "processFileData", "processRow", "parseDateTime",
     "calculateStatistics"}

\* The files of a call are read.  When DataProcessor.processFiles returns, it
\* has finished its loading state, and JobAnalyzerApp.processFiles calls
\* processor.calculateOverdueAnalysis: were it a method of DataProcessor, the
\* ExportManager would be created over the records returned, the export
\* buttons enabled and the success message shown; as it is not, the TypeError
\* is caught and shown.  When DataProcessor.processFiles throws, its loading
\* state is not finished, and the message of its ProcessingError is shown.
FilesRead(c, r, returns) ==
    /\ processedData' = r.data
    /\ statistics' = IF returns THEN calculateStatistics(r.data) ELSE statistics
    /\ last' = IF returns
               THEN [kind |-> "resolved", files |-> calls[c].files, value |-> r.data,
                     stats |-> statistics', alone |-> calls[c].alone,
                     at |-> 0, cause |-> "", message |-> "", original |-> <<>>]
               ELSE [kind |-> "rejected", files |-> calls[c].files, value |-> <<>>,
                     stats |-> <<>>, alone |-> calls[c].alone, at |-> r.at,
                     cause |-> IF r.ok THEN "TypeError" ELSE FailureOf(calls[c].files[r.at]),
                     message |-> ProcessingErrorMessage, original |-> <<>>]
    /\ loadingManager' =
          finishLoading(IF returns
                        THEN finishLoading(loadingManager,
                                           generateUniqueId(app.loadingId[c]))
                        ELSE loadingManager,
                        ProcessFilesId)
    /\ IF returns /\ "calculateOverdueAnalysis" \in DataProcessorMethods
       THEN /\ exportData' = r.data
            /\ app' = [app EXCEPT !.exportManager = TRUE, !.exportButtons = "enabled",
                                  !.successMessages = SuccessMessage]
            /\ UNCHANGED errorMessages
       ELSE /\ errorMessages' = IF returns THEN NotAFunctionMessage
                                ELSE ProcessingErrorMessage
            /\ UNCHANGED <<exportData, app>>
    /\ calls' = [calls EXCEPT ![c] = Idle]
    /\ UNCHANGED <<disk, rawData, prev, exported, config, parserVars, loaderVars>>

AppFilesRead(c) ==
    /\ InFlight(c)
    /\ FilesRead(c, processAll(processedData, calls[c].files, 1),
                 /\ processAll(processedData, calls[c].files, 1).ok
                 /\ ~groupByThrows(processAll(processedData, calls[c].files, 1).data))

\* A click on the XLSX button: JobAnalyzerApp.handleExportXLSX
HandleExportXLSX ==
    /\ loadingManager' = finishLoading(startLoading(loadingManager, ExportXLSXId),
                                       ExportXLSXId)
    /\ IF ~app.exportManager
       THEN /\ errorMessages' = RefusedXLSXMessage
            /\ UNCHANGED <<exported, app>>
       ELSE /\ exported' = exportToXLSX(exportData, config.ANALYSIS.OVERDUE_THRESHOLD)
            /\ errorMessages' = IF exported'.status = "written" THEN errorMessages
                                ELSE "Erro na exportação XLSX: Erro na exportação XLSX"
            /\ app' = IF exported'.status = "written"
                      THEN [app EXCEPT !.successMessages = "Arquivo XLSX exportado com sucesso!"]
                      ELSE app
    /\ last' = [NoCall EXCEPT !.kind = "exportXLSX"]
    /\ UNCHANGED <<disk, rawData, processedData, statistics, calls, prev,
                   exportData, config, parserVars, loaderVars>>

\* A click on the PDF button: JobAnalyzerApp.handleExportPDF; the statistics
\* table of the PDF needs Utils.groupBy
HandleExportPDF ==
    /\ loadingManager' = finishLoading(startLoading(loadingManager, ExportPDFId),
                                       ExportPDFId)
    /\ IF ~app.exportManager \/ ~app.initialized
       THEN /\ errorMessages' = RefusedPDFMessage
            /\ UNCHANGED app
       ELSE /\ errorMessages' = IF ~groupByThrows(exportData) THEN errorMessages
                                ELSE "Erro na exportação PDF: Erro na exportação PDF"
            /\ app' = IF ~groupByThrows(exportData)
                      THEN [app EXCEPT !.successMessages = "Arquivo PDF exportado com sucesso!"]
                      ELSE app
    /\ last' = [NoCall EXCEPT !.kind = "exportPDF"]
    /\ UNCHANGED <<disk, rawData, processedData, statistics, calls, prev,
                   exportVars, parserVars, loaderVars>>

InitApp ==
    /\ disk \in AppDisks
    /\ rawData = <<>>
    /\ processedData = <<>>
    /\ statistics = <<>>
    /\ calls = [c \in Callers |-> Idle]
    /\ last = NoCall
    /\ prev = NoRun
    /\ errorMessages = ""
    /\ NoExport
    /\ NoParse
    /\ NoLoad
    /\ NewApp

NextApp ==
    \/ \E l \in Loaders : AppInitialize(l)
    \/ \E id \in ScriptIds : AppScriptLoaded(id)
    \/ \E id \in ScriptIds : AppScriptFailed(id)
    \/ \E c \in Callers : \E files \in Batches(disk) \cup {<<>>} : AppProcessFiles(c, files)
    \/ \E c \in Callers : AppFilesRead(c)
    \/ HandleExportXLSX
    \/ HandleExportPDF

SpecApp == InitApp /\ [][NextApp]_vars

(***************************************************************************)
(* Properties.                                                             *)
(***************************************************************************)
\* the records of a selection of files, file after file
ExpectedRecords(files) ==
    LET F[i \in 0..Len(files)] ==
            IF i = 0 THEN <<>> ELSE F[i - 1] \o Processed[files[i]].records
    IN  F[Len(files)]

FileNamed(name) == CHOOSE f \in disk : f.name = name

Records(data) == {data[i] : i \in 1..Len(data)}

\* C1: every record held in processedData has its end at or after its start
\* and a duration that is not negative and is (end - start) in minutes
C1_HeldRecordsValid ==
    \A r \in Records(processedData) :
        /\ r.endDateTime.time >= r.startDateTime.time
        /\ r.duration >= 0
        /\ 60 * r.duration = r.endDateTime.time - r.startDateTime.time

\* a call has returned records for a file that has a row ending before its start
C1_Witness ==
    /\ last.kind = "resolved"
    /\ processedData # <<>>
    /\ \E i \in 1..Len(last.files[1].rows) : last.files[1].rows[i] = "negative"

\* C2: when a call fails on reading or validating a file, no record of the
\* files of its batch is held afterwards and no statistics are held
C2_FailedBatchDiscarded ==
    (last.kind = "rejected" /\ last.cause \in {"read", "ValidationError"}) =>
        /\ \A r \in Records(processedData) :
              \A i \in 1..Len(last.files) : r.source.file # last.files[i].name
        /\ statistics = <<>>

\* C3: the sequence a call returns holds exactly the records of its own files
C3_ReturnsOwnRecords ==
    last.kind = "resolved" => last.value = ExpectedRecords(last.files)

\* a header cell that does not hold the label of its column
LacksLabel(file) == file.header.cell \in {"missing", "empty", "truncated", "other"}

\* C4: a file whose header row lacks a required label is rejected by the
\* validation of the headers: no call gets past it, and none of its rows is
\* ever held, well-formed as they are
C4_MissingLabelRejected ==
    /\ \A c \in Callers :
          InFlight(c) => \A j \in 1..(calls[c].i - 1) : ~LacksLabel(calls[c].files[j])
    /\ last.kind = "resolved" => \A j \in 1..Len(last.files) : ~LacksLabel(last.files[j])
    /\ (last.kind = "rejected" /\ last.files[last.at].readable /\ LacksLabel(last.files[last.at]))
          => last.cause = "ValidationError"
    /\ \A r \in Records(processedData) : ~LacksLabel(FileNamed(r.source.file))

\* a call on a file that lacks a label, with well-formed rows, has been rejected
C4_Witness ==
    /\ last.kind = "rejected"
    /\ last.cause = "ValidationError"
    /\ LacksLabel(last.files[last.at])
    /\ last.files[last.at].rows = <<"valid", "valid", "noAgent">>
    /\ processedData = <<>>

HeaderCellValue(file, key) == Cell(FirstSheet(file), COLUMNS[key], HEADER_ROW)

Keys == {ColumnKeys[i] : i \in 1..Len(ColumnKeys)}

\* C5 as stated: a call returns only if each header cell of each of its
\* files holds exactly the label of its column
C5_ExactHeaderOnly ==
    last.kind = "resolved" =>
        \A j \in 1..Len(last.files) : \A key \in Keys :
            HeaderCellValue(last.files[j], key) = Str(HEADERS[key])

\* the header cell of the column is text that contains the label
ContainsLabel(file, key) ==
    /\ IsString(HeaderCellValue(file, key))
    /\ \E i \in 1..Len(HeaderCellValue(file, key).s) :
          \E k \in i..Len(HeaderCellValue(file, key).s) :
              SubSeq(HeaderCellValue(file, key).s, i, k) = HEADERS[key]

\* C5 amended: a file passes the validation of the headers exactly when each
\* of the four header cells contains the label of its column, with or
\* without text around it
C5_HeaderContainsLabel ==
    /\ last.kind = "resolved" =>
          \A j \in 1..Len(last.files) : \A key \in Keys : ContainsLabel(last.files[j], key)
    /\ (last.kind = "rejected" /\ last.cause = "ValidationError") =>
          \E key \in Keys : ~ContainsLabel(last.files[last.at], key)
    /\ (last.kind = "rejected" /\ last.files[last.at].readable
            /\ \A key \in Keys : ContainsLabel(last.files[last.at], key)) =>
          last.cause # "ValidationError"

\* a call has returned for a file with text after the label in a header cell
C5_Witness ==
    /\ last.kind = "resolved"
    /\ last.files[1].header.cell = "suffix"
    /\ last.value # <<>>

\* the rows a file contributes according to the rule of the row normaliser
RowKept(row) ==
    /\ parseDateTime(row.startDateTime) # Null
    /\ parseDateTime(row.endDateTime) # Null
    /\ parseDateTime(row.endDateTime).time >= parseDateTime(row.startDateTime).time

NameOrEmpty(v) == IF IsString(v) THEN Trim(v.s) ELSE <<>>

KeptRecord(row) ==
    [jobName       |-> NameOrEmpty(row.jobName),
     agentName     |-> NameOrEmpty(row.agentName),
     startDateTime |-> parseDateTime(row.startDateTime),
     endDateTime   |-> parseDateTime(row.endDateTime),
     duration      |-> (parseDateTime(row.endDateTime).time
                        - parseDateTime(row.startDateTime).time) \div 60,
     source        |-> row.source]

KeptRows(data) == SelectSeq(data, RowKept)

\* C6: for one file, the records returned are those of the rows whose start
\* and end parse and whose duration is not negative, in the order of the
\* rows, every other row kept, a missing name being the empty text
C6_NormalizerKeepsValidRows ==
    (last.kind = "resolved" /\ last.alone /\ Len(last.files) = 1) =>
        last.value = [i \in 1..Len(KeptRows(ReadResult[last.files[1]].data)) |->
                         KeptRecord(KeptRows(ReadResult[last.files[1]].data)[i])]

\* a valid row, a row whose end does not parse, and a valid row without a
\* job name: two records, the second with the empty job name
C6_Witness ==
    /\ last.kind = "resolved"
    /\ last.alone
    /\ last.files[1].rows = <<"blank", "valid", "badEnd", "noJob">>
    /\ Len(last.value) = 2
    /\ last.value[2].jobName = <<>>

\* the position in a selection of the file a record comes from
FilePosition(files, r) == CHOOSE j \in 1..Len(files) : files[j].name = r.source.file

\* C7: a call on its own reads file i + 1 only once the records of the files
\* 1..i are appended, and returns the records of its files in the order of the
\* files, those of one file in the order of its rows
C7_FilesInOrder ==
    /\ \A c \in Callers :
          (InFlight(c) /\ calls[c].alone) =>
              processedData = ExpectedRecords(SubSeq(calls[c].files, 1, calls[c].i - 1))
    /\ (last.kind = "resolved" /\ last.alone) =>
          \A k, l \in 1..Len(last.value) :
              k < l =>
                  \/ FilePosition(last.files, last.value[k]) < FilePosition(last.files, last.value[l])
                  \/ /\ last.value[k].source.file = last.value[l].source.file
                     /\ last.value[k].source.row < last.value[l].source.row

\* a call on two files has returned two records of the first and one of the second
C7_Witness ==
    /\ last.kind = "resolved"
    /\ last.alone
    /\ Len(last.files) = 2
    /\ Len(last.value) >= 3
    /\ last.value[1].source.file = last.files[1].name
    /\ last.value[2].source.file = last.files[1].name
    /\ last.value[Len(last.value)].source.file = last.files[2].name

\* C8: once a call that ran on its own has settled, the records and the
\* statistics held derive from its batch alone: the records of its files (of
\* the files before the failing one when it failed), the statistics of these
\* records (none when it failed), whatever the earlier calls left
C8_OnlyCurrentBatch ==
    /\ (last.kind = "resolved" /\ last.alone) =>
          /\ processedData = ExpectedRecords(last.files)
          /\ statistics = calculateStatistics(ExpectedRecords(last.files))
    /\ (last.kind = "rejected" /\ last.alone) =>
          /\ processedData =
                 ExpectedRecords(SubSeq(last.files, 1,
                                        IF last.cause = "TypeError" THEN Len(last.files)
                                        ELSE last.at - 1))
          /\ statistics = <<>>

\* a call has returned after an earlier call had returned other records
C8_Witness ==
    /\ last.kind = "resolved"
    /\ last.alone
    /\ prev.kind = "run"
    /\ prev.value # <<>>
    /\ prev.files # last.files
    /\ processedData # <<>>

\* C9: two calls on the same files, each run on its own, return the same
\* records and leave the same statistics, whatever was processed before
C9_Idempotent ==
    (last.kind = "resolved" /\ last.alone /\ prev.kind = "run" /\ prev.files = last.files) =>
        /\ last.value = prev.value
        /\ last.stats = prev.stats

\* the same files have been processed twice and gave records
C9_Witness ==
    /\ last.kind = "resolved"
    /\ last.alone
    /\ prev.kind = "run"
    /\ prev.files = last.files
    /\ last.value # <<>>
    /\ DOMAIN last.stats # {}

\* C10: a call does not return when one of its files has data rows of which
\* none is valid
C10_NoValidRowRaises ==
    last.kind = "resolved" =>
        \A j \in 1..Len(last.files) : Processed[last.files[j]].records # <<>>

\* C11: two calls that fail for different reasons (a read that fails, headers
\* that are not valid, a file without data) give the caller, and the page,
\* different messages
C11_MessagesDistinguishCause ==
    [][(/\ last.kind = "rejected"
        /\ last'.kind = "rejected"
        /\ last.cause # last'.cause
        /\ {last.cause, last'.cause} \subseteq {"read", "ValidationError", "DataError"})
          => (last.message # last'.message /\ errorMessages # errorMessages')]_vars

\* the durations of the records of a job among the records held
HeldDurations(job) ==
    LET jobs == SelectSeq(processedData, LAMBDA r : r.jobName = job)
    IN  [i \in 1..Len(jobs) |-> jobs[i].duration]

\* C14: once the files of a call are read and normalised, the statistics
\* have exactly one entry for each job name among the records held, computed
\* from the records of that job: their number n, their sum (n times the
\* mean), the sum of the squares of n * duration - sum (n^3 times the
\* population variance), the extreme durations and the number of distinct agents
C14_OneEntryPerJob ==
    (last.alone /\ (last.kind = "resolved" \/ last.cause = "TypeError")) =>
        /\ DOMAIN statistics = {r.jobName : r \in Records(processedData)}
        /\ \A job \in DOMAIN statistics :
              /\ statistics[job].count = Len(HeldDurations(job))
              /\ statistics[job].sum = SumSeq(HeldDurations(job))
              /\ statistics[job].sqdev
                    = SumSeq([i \in 1..Len(HeldDurations(job)) |->
                          (Len(HeldDurations(job)) * HeldDurations(job)[i]
                              - SumSeq(HeldDurations(job)))
                          * (Len(HeldDurations(job)) * HeldDurations(job)[i]
                              - SumSeq(HeldDurations(job)))])
              /\ \A i \in 1..Len(HeldDurations(job)) :
                    statistics[job].min <= HeldDurations(job)[i]
                    /\ statistics[job].max >= HeldDurations(job)[i]
              /\ statistics[job].uniqueAgents =
                    Cardinality({r.agentName : r \in {x \in Records(processedData) :
                                                          x.jobName = job}})

\* C17: the row directly below the header row is converted: when it is a
\* valid row, the records a call returns include one for it
C17_DataBeginsBelowHeader ==
    (last.kind = "resolved" /\ last.alone) =>
        \A j \in 1..Len(last.files) :
            (Len(last.files[j].rows) >= 1
                /\ last.files[j].rows[1] \in {"valid", "noJob", "noAgent"}) =>
                \E r \in Records(last.value) :
                    r.source = [file |-> last.files[j].name, row |-> HEADER_ROW + 1]

(***************************************************************************)
(* Properties of the ExportManager and of CONFIG.                          *)
(***************************************************************************)
\* the durations of the executions of a job among the records exported
DurationsOf(job) ==
    LET jobs == SelectSeq(exportData, LAMBDA r : r.jobName = job)
    IN  [i \in 1..Len(jobs) |-> jobs[i].duration]

\* n^2 times the squared distance of d from the mean of ds, n = Len(ds)
Distance2(d, ds) == (Len(ds) * d - SumSeq(ds)) * (Len(ds) * d - SumSeq(ds))

\* n^3 times the population variance of ds
Variance3(ds) == SumSeq([i \in 1..Len(ds) |-> Distance2(ds[i], ds)])

\* d > mean + k * stddev of ds: d is above the mean, and the square of its
\* distance from the mean is above k^2 times the variance
AboveThreshold(d, ds, k) ==
    /\ Len(ds) * d > SumSeq(ds)
    /\ Len(ds) * Distance2(d, ds) > k * k * Variance3(ds)

\* d = mean + k * stddev of ds
AtThreshold(d, ds, k) ==
    /\ Len(ds) * d >= SumSeq(ds)
    /\ Len(ds) * Distance2(d, ds) = k * k * Variance3(ds)

\* C12: the overdue count exported for a job is the number of its executions
\* whose duration is strictly above mean + k * stddev of the job, k being the
\* configured multiplier; a job of equal durations has no overdue execution
C12_OverdueStrictlyAbove ==
    exported.status = "written" =>
        \A job \in DOMAIN exported.analysis :
            /\ exported.analysis[job].overdueCount =
                  Cardinality({i \in 1..Len(DurationsOf(job)) :
                      AboveThreshold(DurationsOf(job)[i], DurationsOf(job), exported.threshold)})
            /\ (\A i \in 1..Len(DurationsOf(job)) : DurationsOf(job)[i] = DurationsOf(job)[1])
                  => exported.analysis[job].overdueCount = 0

\* the export has counted no overdue execution for a job that has an
\* execution exactly at its threshold, with k = 1
C12_Witness ==
    /\ exported.status = "written"
    /\ exported.threshold = 1
    /\ \E job \in DOMAIN exported.analysis :
          /\ \E i \in 1..Len(DurationsOf(job)) :
                /\ AtThreshold(DurationsOf(job)[i], DurationsOf(job), 1)
                /\ DurationsOf(job)[i] > DurationsOf(job)[1]
          /\ exported.analysis[job].overdueCount = 0

\* C13: every job of the statistics and of the overdue summary has at least
\* one execution, its overdue count is between 0 and the number of its
\* executions, and its percentage is overdueCount / totalCount * 100
C13_CountsAndPercentage ==
    /\ \A job \in DOMAIN statistics :
          statistics[job].count >= 1 /\ statistics[job].totalExecutions >= 1
    /\ \A job \in DOMAIN exported.statistics : exported.statistics[job].count >= 1
    /\ \A job \in DOMAIN exported.analysis :
          /\ exported.analysis[job].totalExecutions >= 1
          /\ exported.analysis[job].totalExecutions = Len(DurationsOf(job))
          /\ exported.analysis[job].overdueCount >= 0
          /\ exported.analysis[job].overdueCount <= exported.analysis[job].totalExecutions
          /\ exported.analysis[job].overduePercentage.den # 0
          /\ exported.analysis[job].overduePercentage.num
                 * exported.analysis[job].totalExecutions
             = 100 * exported.analysis[job].overdueCount
                 * exported.analysis[job].overduePercentage.den

\* the export has written the summary of a job with three executions, one
\* of them overdue, the DataProcessor holding statistics
C13_Witness ==
    /\ exported.status = "written"
    /\ DOMAIN statistics # {}
    /\ \E job \in DOMAIN exported.analysis :
          /\ exported.analysis[job].overdueCount = 1
          /\ exported.analysis[job].totalExecutions = 3

\* the rows of the statistics sheet for statistics of the DataProcessor
RowsOfStatistics(stats) ==
    {[Job       |-> job,
      mean      |-> ToFixed2(stats[job].sum, stats[job].count),
      std       |-> RoundedRoot(100, stats[job].sqdev,
                                stats[job].count * stats[job].count * stats[job].count,
                                100 * (stats[job].max - stats[job].min)),
      min       |-> ToFixed2(stats[job].min, 1),
      max       |-> ToFixed2(stats[job].max, 1),
      Execucoes |-> stats[job].count,
      Agentes   |-> stats[job].uniqueAgents] : job \in DOMAIN stats}

C20_ConfigurationImmutable == config = CONFIG

(***************************************************************************)
(* Properties of parseDateTime.                                            *)
(***************************************************************************)
\* C15: the text of a calendar date and time written day/month/year, the day
\* above 12, and the ISO text of the same date and time parse to the same
\* valid Date
C15_DmyEqualsIso ==
    \A c \in Calendars :
        (values = <<Str(DmyText(c)), Str(IsoText(c))>> /\ Len(parsed) = 2) =>
            /\ IsValidDate(parsed[1])
            /\ IsValidDate(parsed[2])
            /\ parsed[1].time = parsed[2].time

\* "15/03/2024 10:30:00" and "2024-03-15T10:30:00" are both parsed
C15_Witness ==
    /\ values = <<Dmy1030, Iso1030>>
    /\ Len(parsed) = 2
    /\ parsed[1] = parsed[2]
    /\ IsValidDate(parsed[1])

\* the result the order of the attempts gives for a text
FirstOfAttempts(text) ==
    IF IsValidDate(NewDate(text)) THEN NewDate(text)
    ELSE IF IsValidDate(FormatDmy(text)) THEN FormatDmy(text)
    ELSE IF IsValidDate(FormatMdy(text)) THEN FormatMdy(text)
    ELSE Null

\* C18: parseDateTime returns a valid Date or null: null for a missing or
\* empty value, a valid Date as it is, and otherwise the first valid result
\* among the direct parse of the text without commas and with single
\* spaces, the day/month/year reassembly and the month/day/year substitution,
\* or null when none is valid
C18_FirstValidAttempt ==
    \A i \in 1..Len(parsed) :
        /\ parsed[i] = Null \/ IsValidDate(parsed[i])
        /\ (values[i] = Undefined \/ values[i] = Null \/ values[i] = Str(<<>>))
              => parsed[i] = Null
        /\ IsValidDate(values[i]) => parsed[i] = values[i]
        /\ (IsString(values[i]) /\ values[i].s # <<>>) =>
              parsed[i] = FirstOfAttempts(CollapseSpaces(RemoveCommas(Trim(values[i].s))))
        /\ (values[i] = NotADate \/ values[i] = InvalidDate \/ values[i] = Str(<<Space>>))
              => parsed[i] = Null

\* "03/04/2024 10:30:00" is parsed by the first attempt, month first, although
\* the day/month/year reassembly gives another valid Date
C18_Witness ==
    /\ Len(parsed) = 1
    /\ values[1] = Str(<<"0", "3", "/", "0", "4", "/", "2", "0", "2", "4", " ",
                         "1", "0", ":", "3", "0", ":", "0", "0">>)
    /\ IsValidDate(parsed[1])
    /\ IsValidDate(FormatDmy(values[1].s))
    /\ FormatDmy(values[1].s) # parsed[1]

\* C23: with the multiplier 1, at most half of the executions of any job are
\* overdue, the percentage of no job is above 50, and no bar of the overdue
\* frequency chart has the colour of more than 50 %
C23_AtMostHalfOverdue ==
    exported.threshold = 1 =>
        \A job \in DOMAIN exported.analysis :
            /\ 2 * exported.analysis[job].overdueCount
                  <= exported.analysis[job].totalExecutions
            /\ exported.analysis[job].overduePercentage.num
                  <= 50 * exported.analysis[job].overduePercentage.den
            /\ createOverdueFrequencyChart(exported.analysis)[job] = "#3498db"

\* with the multiplier 1 the export has found overdue a third of the
\* executions of a job, whose bar has the other colour
C23_Witness ==
    /\ exported.status = "written"
    /\ exported.threshold = 1
    /\ \E job \in DOMAIN exported.analysis :
          /\ exported.analysis[job].overdueCount >= 1
          /\ 3 * exported.analysis[job].overdueCount
                = exported.analysis[job].totalExecutions
          /\ createOverdueFrequencyChart(exported.analysis)[job] = "#3498db"

(***************************************************************************)
(* Properties of ResourceLoader.                                           *)
(***************************************************************************)
\* C19: a promise returned by loadScript is resolved only once the script
\* with its id is loaded, and at most one script element is added per id
C19_ResolvesOnlyOnceLoaded ==
    /\ \A c \in Loaders : \A id \in ScriptIds :
          promises[c][id] = "resolved" => elements[id].state = "loaded"
    /\ \A id \in ScriptIds : elements[id].added <= 1

(***************************************************************************)
(* Properties of the application.                                          *)
(***************************************************************************)
\* no initialize call and no processFiles call is in progress (the export
\* handlers take one step)
NoOperationInProgress ==
    /\ \A l \in Loaders : loads[l] # "pending"
    /\ \A c \in Callers : ~InFlight(c)

\* C21: once no operation is in progress, the LoadingManager has no loading
\* state left and its overlay is hidden
C21_LoadingStatesFinished ==
    NoOperationInProgress =>
        loadingManager.loadingStates = {} /\ loadingManager.hidden

\* C22: when DataProcessor.processFiles returns, JobAnalyzerApp.processFiles
\* creates the ExportManager over the records returned, enables the export
\* buttons and shows the success message without showing an error; and an
\* export handler refuses with its validation error, exporting nothing, when
\* no ExportManager has been created
C22_SuccessPathCompletes ==
    [][/\ last'.kind = "resolved" =>
              /\ app'.exportManager
              /\ exportData' = last'.value
              /\ app'.exportButtons = "enabled"
              /\ app'.successMessages = SuccessMessage
              /\ errorMessages' = errorMessages
       /\ (last'.kind = "exportXLSX" /\ ~app.exportManager) =>
              errorMessages' = RefusedXLSXMessage /\ exported' = exported
       /\ (last'.kind = "exportPDF" /\ ~app.exportManager) =>
              errorMessages' = RefusedPDFMessage /\ exported' = exported]_vars

====
